---------------------------- MODULE Spec2Model ----------------------------
(***************************************************************************)
(* Model of lint/markup.go: the markup entry points (lintMarkdown,         *)
(* lintRST, lintADoc, lintXML, lintDITA, lintHTML), the token loop of      *)
(* lintHTMLTokens and the context tracker (updateCtx, updateContext,       *)
(* clearElements).  Go strings are TLA+ strings; indices are 1-based and   *)
(* 0 stands for Go's "not found" (-1).                                     *)
(***************************************************************************)
EXTENDS Integers, Sequences, FiniteSets, TLC

(***************************************************************************)
(* String helpers (Go's strings package).                                  *)
(***************************************************************************)
Char(s, i) == SubSeq(s, i, i)

RECURSIVE IndexFrom(_, _, _)
IndexFrom(s, sub, i) ==
    IF i + Len(sub) - 1 > Len(s) THEN 0
    ELSE IF SubSeq(s, i, i + Len(sub) - 1) = sub THEN i
    ELSE IndexFrom(s, sub, i + 1)

\* strings.Index: the first place sub occurs in s, 0 when it does not.
Index(s, sub) == IndexFrom(s, sub, 1)

RECURSIVE Repeat(_, _)
Repeat(c, n) == IF n <= 0 THEN "" ELSE c \o Repeat(c, n - 1)

IsSpace(c) == c \in {" ", "\n", "\t"}

RECURSIVE TrimLeftSpace(_)
TrimLeftSpace(s) ==
    IF Len(s) > 0 /\ IsSpace(Char(s, 1))
    THEN TrimLeftSpace(SubSeq(s, 2, Len(s)))
    ELSE s

RECURSIVE TrimRightSpace(_)
TrimRightSpace(s) ==
    IF Len(s) > 0 /\ IsSpace(Char(s, Len(s)))
    THEN TrimRightSpace(SubSeq(s, 1, Len(s) - 1))
    ELSE s

\* strings.TrimSpace
TrimSpace(s) == TrimRightSpace(TrimLeftSpace(s))

\* strings.TrimLeft(s, " ")
RECURSIVE TrimLeft(_)
TrimLeft(s) ==
    IF Len(s) > 0 /\ Char(s, 1) = " "
    THEN TrimLeft(SubSeq(s, 2, Len(s)))
    ELSE s

\* strings.Split(s, sep), sep one character
RECURSIVE Split(_, _)
Split(s, sep) ==
    LET i == Index(s, sep)
    IN  IF i = 0 THEN <<s>>
        ELSE <<SubSeq(s, 1, i - 1)>> \o Split(SubSeq(s, i + 1, Len(s)), sep)

\* The length of the first run of non-space characters of s.
RECURSIVE WordLen(_)
WordLen(s) ==
    IF Len(s) = 0 \/ IsSpace(Char(s, 1)) THEN 0
    ELSE 1 + WordLen(SubSeq(s, 2, Len(s)))

\* strings.Fields
RECURSIVE Fields(_)
Fields(s) ==
    LET t == TrimLeftSpace(s)
        n == WordLen(t)
    IN  IF Len(t) = 0 THEN <<>>
        ELSE <<SubSeq(t, 1, n)>> \o Fields(SubSeq(t, n + 1, Len(t)))

\* core.StringInSlice
StringInSlice(a, slice) == \E i \in 1..Len(slice) : slice[i] = a

\* html.UnescapeString, for the entities of the inputs used here.
RECURSIVE UnescapeString(_)
UnescapeString(s) ==
    LET i == Index(s, "&amp;")
    IN  IF i = 0 THEN s
        ELSE SubSeq(s, 1, i - 1) \o "&"
                \o UnescapeString(SubSeq(s, i + 5, Len(s)))

(***************************************************************************)
(* core.Substitute(src, sub, char): the first occurrence of sub in src is  *)
(* replaced by char repeated to the length of sub.                         *)
(***************************************************************************)
Substitute(src, sub, char) ==
    LET idx == Index(src, sub)
    IN  IF idx = 0 THEN [str |-> src, found |-> FALSE]
        ELSE [str   |-> SubSeq(src, 1, idx - 1) \o Repeat(char, Len(sub))
                          \o SubSeq(src, idx + Len(sub), Len(src)),
              found |-> TRUE]

(***************************************************************************)
(* updateCtx.  The Trace form also reports the spans it selected as match  *)
(* targets, [at, len], in the order they were redacted.                    *)
(***************************************************************************)
Span(ctx, s) == [at |-> Index(ctx, s), len |-> Len(s)]

\* A word fallback that cuts the word out instead of redacting it.
RECURSIVE updateCtxWordsCut(_, _)
updateCtxWordsCut(acc, ws) ==
    IF ws = <<>> THEN acc
    ELSE LET i == Index(acc.ctx, ws[1])
             r == IF i = 0 THEN acc.ctx
                  ELSE SubSeq(acc.ctx, 1, i - 1)
                         \o SubSeq(acc.ctx, i + Len(ws[1]), Len(acc.ctx))
         IN  updateCtxWordsCut(
                 [ctx   |-> r,
                  spans |-> IF i = 0 THEN acc.spans
                            ELSE Append(acc.spans, Span(acc.ctx, ws[1]))],
                 Tail(ws))

\* lines 318-320: for _, w := range strings.Fields(s)
RECURSIVE updateCtxWords(_, _)
updateCtxWords(acc, ws) ==
    IF ws = <<>> THEN acc
    ELSE LET r == Substitute(acc.ctx, ws[1], "@")
         IN  updateCtxWords(
                 [ctx   |-> r.str,
                  spans |-> IF r.found
                            THEN Append(acc.spans, Span(acc.ctx, ws[1]))
                            ELSE acc.spans],
                 Tail(ws))

\* lines 315-321: for _, s := range strings.Split(txt, "\n")
RECURSIVE updateCtxLines(_, _)
updateCtxLines(acc, ls) ==
    IF ls = <<>> THEN acc
    ELSE LET r == Substitute(acc.ctx, ls[1], "@")
         IN  updateCtxLines(
                 IF r.found
                 THEN [ctx   |-> r.str,
                       spans |-> Append(acc.spans, Span(acc.ctx, ls[1]))]
                 ELSE updateCtxWords(acc, Fields(ls[1])),
                 Tail(ls))

updateCtxTrace(ctx, txt, tokt) ==
    IF tokt \in {"Text", "Comment"} /\ txt # ""
    THEN updateCtxLines([ctx |-> ctx, spans |-> <<>>], Split(txt, "\n"))
    ELSE [ctx |-> ctx, spans |-> <<>>]

updateCtx(ctx, txt, tokt) == updateCtxTrace(ctx, txt, tokt).ctx

\* updateContext
RECURSIVE updateContext(_, _)
updateContext(ctx, queue) ==
    IF queue = <<>> THEN ctx
    ELSE updateContext(updateCtx(ctx, queue[1], "Text"), Tail(queue))

(***************************************************************************)
(* Package-level tables (lines 86-113) and the defaults of lines 144-147.  *)
(***************************************************************************)
skipTagsDefault == <<"script", "style", "pre", "figure">>

skipClassesDefault == <<"problematic", "pre">>

inlineTags ==
    <<"b", "big", "i", "small", "abbr", "acronym", "cite", "dfn", "em", "kbd",
      "strong", "a", "br", "img", "span", "sub", "sup", "code", "tt", "del">>

tagToScope ==
    [th         |-> "text.table.header",
     td         |-> "text.table.cell",
     li         |-> "text.list",
     blockquote |-> "text.blockquote",
     strong     |-> "strong",
     b          |-> "strong",
     a          |-> "link",
     em         |-> "emphasis",
     i          |-> "emphasis",
     code       |-> "code"]

skippedDefault == <<"tt", "code">>

\* heading = regexp.MustCompile(`^h\d$`)
heading(tag) ==
    /\ Len(tag) = 2
    /\ Char(tag, 1) = "h"
    /\ Char(tag, 2) \in {"0", "1", "2", "3", "4", "5", "6", "7", "8", "9"}

\* core.NewBlock; via names the rule-engine entry the block is handed to.
NewBlock(ctx, txt, raw, scope) ==
    [Context |-> ctx, Text |-> txt, Raw |-> raw, Scope |-> scope,
     via |-> "lintText"]

\* l.lintProse(f, ctx, txt, raw, lines, 0): no scope is given by the caller.
ProseCall(ctx, txt, raw) ==
    [Context |-> ctx, Text |-> txt, Raw |-> raw, Scope |-> "",
     via |-> "lintProse"]

(***************************************************************************)
(* Helpers of the token loop.                                              *)
(***************************************************************************)
checkClasses(attr, ignore) ==
    LET classes == Split(attr, " ")
    IN  \E k \in 1..Len(classes) : StringInSlice(classes[k], ignore)

shouldBeSkipped(tagHistory, ext) ==
    IF ext = ".rst"
    THEN LET n == Len(tagHistory)
             nonSpan == {k \in 1..n : tagHistory[k] # "span"}
         IN  IF nonSpan = {} THEN FALSE
             ELSE LET k == CHOOSE m \in nonSpan : \A j \in nonSpan : j <= m
                  IN  tagHistory[k] = "tt" /\ k # n
    ELSE FALSE

\* The backtick; a TLA+ string cannot hold one, so the model writes ~ for it.
BT == "~"

codify(ext, text) ==
    IF ext = ".md" \/ ext = ".adoc" THEN BT \o text \o BT
    ELSE IF ext = ".rst" THEN BT \o BT \o text \o BT \o BT
    ELSE text

\* A cleaning that wraps and pads the rendered form only.
cleanRawAsIs(txt, ext, skip, skipClass, inline) ==
    LET punct   == <<".", "?", "!", ",", ":", ";">>
        first   == IF txt = "" THEN "" ELSE Char(txt, 1)
        starter == StringInSlice(first, punct) /\ ~skip
        redact  == skip \/ skipClass
        txt1    == IF redact
                   THEN codify(ext, Substitute(txt, txt, "*").str)
                   ELSE txt
        pad     == inline /\ ~starter
    IN  [txt  |-> IF pad THEN " " \o txt1 ELSE txt1,
         raw  |-> txt,
         skip |-> IF redact THEN FALSE ELSE skip]

\* A cleaning that wraps skipped text but leaves its rendered form readable.
cleanKeepText(txt, ext, skip, skipClass, inline) ==
    LET punct   == <<".", "?", "!", ",", ":", ";">>
        first   == IF txt = "" THEN "" ELSE Char(txt, 1)
        starter == StringInSlice(first, punct) /\ ~skip
        redact  == skip \/ skipClass
        both    == IF redact THEN codify(ext, txt) ELSE txt
        pad     == inline /\ ~starter
    IN  [txt  |-> IF pad THEN " " \o both ELSE both,
         raw  |-> IF pad THEN " " \o both ELSE both,
         skip |-> IF redact THEN FALSE ELSE skip]

\* lines 285-301
clean(txt, ext, skip, skipClass, inline) ==
    LET punct   == <<".", "?", "!", ",", ":", ";">>
        first   == IF txt = "" THEN "" ELSE Char(txt, 1)   \* "": utf8.RuneError
        starter == StringInSlice(first, punct) /\ ~skip
        redact  == skip \/ skipClass
        raw1    == IF redact THEN codify(ext, txt) ELSE txt
        txt1    == IF redact
                   THEN codify(ext, Substitute(txt, txt, "*").str)
                   ELSE txt
        pad     == inline /\ ~starter
    IN  [txt  |-> IF pad THEN " " \o txt1 ELSE txt1,
         raw  |-> IF pad THEN " " \o raw1 ELSE raw1,
         skip |-> IF redact THEN FALSE ELSE skip]

getAttribute(tok, key) ==
    LET hits == {k \in 1..Len(tok.Attr) : tok.Attr[k].Key = key}
    IN  IF hits = {} THEN ""
        ELSE tok.Attr[CHOOSE k \in hits : \A j \in hits : k <= j].Val

RECURSIVE clearAttrs(_, _)
clearAttrs(ctx, attrs) ==
    IF attrs = <<>> THEN ctx
    ELSE clearAttrs(
             IF attrs[1].Key \in {"href", "id", "src"}
             THEN updateCtx(ctx, attrs[1].Val, "Text")
             ELSE ctx,
             Tail(attrs))

clearElements(ctx, tok) ==
    IF tok.Data \in {"img", "a", "p", "script"}
    THEN clearAttrs(ctx, tok.Attr)
    ELSE ctx

\* lines 224-236: the entry of tags that decides the label, 0 when none does.
Scoped(tag) ==
    \/ (tag \in DOMAIN tagToScope /\ ~StringInSlice(tag, inlineTags))
    \/ heading(tag)

\* A walk that starts from the most recently pushed entry.
lintScopeHitLast(tags) ==
    LET hits == {k \in 1..Len(tags) : Scoped(tags[k])}
    IN  IF hits = {} THEN 0 ELSE CHOOSE k \in hits : \A j \in hits : j <= k

lintScopeHit(tags) ==
    LET hits == {k \in 1..Len(tags) : Scoped(tags[k])}
    IN  IF hits = {} THEN 0 ELSE CHOOSE k \in hits : \A j \in hits : k <= j

\* A classification that adds every block to f.Summary, labelled or not.
lintScopeSummaryAll(f, summary, ctx, txt, raw, tags) ==
    LET k == lintScopeHit(tags)
    IN  [out |-> IF k # 0
                 THEN <<NewBlock(ctx, TrimLeft(txt), raw,
                          IF tags[k] \in DOMAIN tagToScope
                          THEN tagToScope[tags[k]] \o f.RealExt
                          ELSE "text.heading." \o tags[k] \o f.RealExt)>>
                 ELSE <<ProseCall(ctx, txt, raw)>>,
         summary |-> summary \o txt \o " "]

\* lintScope: the blocks handed to the rule engine and the new f.Summary.
lintScope(f, summary, ctx, txt, raw, tags) ==
    LET k == lintScopeHit(tags)
    IN  IF k # 0
        THEN [out |-> <<NewBlock(ctx, TrimLeft(txt), raw,
                          IF tags[k] \in DOMAIN tagToScope
                          THEN tagToScope[tags[k]] \o f.RealExt
                          ELSE "text.heading." \o tags[k] \o f.RealExt)>>,
              summary |-> summary]
        ELSE [out |-> <<ProseCall(ctx, txt, raw)>>,
              summary |-> summary \o txt \o " "]

(***************************************************************************)
(* State.  The package-level skipTags, skipClasses and xsltArgs; the       *)
(* document and the configuration of the linter; the locals of             *)
(* lintHTMLTokens; and what an observer of the pass sees: the blocks       *)
(* handed to the rule engine by the last step (emitted), the text the last *)
(* step appended to the two accumulators (appended), the tag history the   *)
(* last step gave to lintScope (scopeTags), the elements open since the    *)
(* start tag of the enclosing skip tag (region), the elements open by the  *)
(* nesting of the tags (openTags), what the tools and the                  *)
(* converters answered (env), and how often the rule engine got a summary  *)
(* or a raw block.                                                         *)
(***************************************************************************)
VARIABLES pc, doc, config, result,
          skipTags, skipClasses, xsltArgs,
          ctx, tok, attr, tag, inBlock, inline, skip,
          buf, act, queue, tagHistory, summary,
          emitted, appended, scopeTags, region, nTok, called, nSummary,
          nRaw, markup, env,
          actx, aprev, afrag, aspans, aredacted, acalls,
          nDocs, pin, pres, openTags

globals == <<skipTags, skipClasses, xsltArgs>>

locals == <<ctx, tok, attr, tag, inBlock, inline, skip,
            buf, act, queue, tagHistory, summary>>

observed == <<emitted, appended, scopeTags, region, nTok, called, nSummary,
              nRaw, openTags>>

\* The variables of the context tracker run on its own (SpecAdvance).
avars == <<actx, aprev, afrag, aspans, aredacted, acalls>>

\* The argument and the result of prep called on its own (SpecPrep).
pvars == <<pin, pres>>

vars == <<pc, doc, config, markup, env, result, globals, locals, observed,
          avars, nDocs, pvars>>

MaxTokens == 4

Token(type, data, attrs) == [Type |-> type, Data |-> data, Attr |-> attrs]

Attribute(key, val) == [Key |-> key, Val |-> val]

\* The zero value of html.Token (var tok html.Token).
NoToken == Token("Error", "", <<>>)

StartTagToken(name, attrs) == Token("StartTag", name, attrs)

EndTagToken(name) == Token("EndTag", name, <<>>)

TextToken_(data) == Token("Text", data, <<>>)

\* Vocabularies of converted markup: the tokens html.Tokenizer may deliver,
\* in any order and number, for a document converted to that markup.
\* Block structure: scoped and plain block tags, a link, text, a comment.
BlockMarkup ==
    {StartTagToken("blockquote", <<>>), StartTagToken("li", <<>>),
     StartTagToken("h2", <<>>),
     StartTagToken("p", <<Attribute("id", "u")>>),
     StartTagToken("a", <<Attribute("href", "u")>>),
     TextToken_("a"), TextToken_(" b c\n"),
     EndTagToken("p"), Token("Comment", " a ", <<>>)}

\* Skip blocks: pre and what converters put inside it.
SkipMarkup ==
    {StartTagToken("pre", <<>>), EndTagToken("pre"),
     StartTagToken("code", <<>>), EndTagToken("code"),
     StartTagToken("p", <<>>), EndTagToken("p"),
     TextToken_("a"), TextToken_("pre"),
     Token("SelfClosingTag", "img", <<Attribute("alt", "x")>>)}

\* Inline elements: links, code spans, classes, images.
InlineMarkup ==
    {StartTagToken("a", <<Attribute("href", "u")>>), EndTagToken("a"),
     StartTagToken("code", <<>>), StartTagToken("tt", <<>>),
     StartTagToken("span", <<Attribute("class", "x pre")>>),
     StartTagToken("img", <<Attribute("alt", "x"), Attribute("src", "u"),
                             Attribute("alt", "y")>>),
     TextToken_("a"), TextToken_(" "), TextToken_(". b"),
     EndTagToken("p")}

\* A paragraph of plain text.
PlainMarkup == {TextToken_("a"), EndTagToken("p")}

Tokens == BlockMarkup \cup SkipMarkup \cup InlineMarkup \cup PlainMarkup

\* The locals of lintHTMLTokens as one value, with the step's outputs.
Locals ==
    [ctx |-> ctx, attr |-> attr, tag |-> tag, inBlock |-> inBlock,
     inline |-> inline, skip |-> skip, buf |-> buf, act |-> act,
     queue |-> queue, tagHistory |-> tagHistory, summary |-> summary,
     out |-> <<>>, app |-> [txt |-> "", raw |-> ""], tags |-> <<>>]

\* skipped (lines 144-147)
skipped(cfg) ==
    IF Len(cfg.IgnoredScopes) > 0 THEN cfg.IgnoredScopes ELSE skippedDefault

\* line 152
TokenText(t) == UnescapeString(TrimSpace(t.Data))

\* lines 157-158
EnterSkipBlock(s) == [s EXCEPT !.inBlock = TRUE]

\* lines 159-160
LeaveSkipBlock(s) == [s EXCEPT !.inBlock = FALSE]

\* A start-tag rule that keeps inline tags out of the tag history.
StartTagBlockOnly(s, txt, cfg) ==
    [s EXCEPT !.inline = StringInSlice(txt, inlineTags),
              !.skip = StringInSlice(txt, skipped(cfg)),
              !.tagHistory = IF StringInSlice(txt, inlineTags)
                             THEN @ ELSE Append(@, txt),
              !.tag = txt]

\* lines 161-165
StartTag(s, txt, cfg) ==
    [s EXCEPT !.inline = StringInSlice(txt, inlineTags),
              !.skip = StringInSlice(txt, skipped(cfg)),
              !.tagHistory = Append(@, txt),
              !.tag = txt]

\* lines 166-167
InlineEndTag(s) == [s EXCEPT !.tag = ""]

\* lines 168-169: f.UpdateComments(txt) gets the comment's text and the file;
\* ctx, a local string of lintHTMLTokens, is not passed to it.
CommentToken(s, txt) == s

\* lines 170-186
TextToken(s, txt, f, skipClass) ==
    LET skip1     == s.skip \/ shouldBeSkipped(s.tagHistory, f.NormedExt)
        immediate == /\ s.tag \in DOMAIN tagToScope
                     /\ StringInSlice(s.tag, inlineTags)
        tempCtx   == updateContext(s.ctx, s.queue)
        c         == clean(txt, f.NormedExt, skip1, skipClass, s.inline)
        cleaned   == ~s.inBlock /\ txt # ""
    IN  [s EXCEPT
           !.out   = IF immediate
                     THEN <<NewBlock(tempCtx, txt, txt, tagToScope[s.tag])>>
                     ELSE <<>>,
           !.tag   = IF immediate THEN "" ELSE @,
           !.queue = Append(@, txt),
           !.skip  = IF cleaned THEN c.skip ELSE skip1,
           !.buf   = IF cleaned THEN @ \o c.txt ELSE @,
           !.act   = IF cleaned THEN @ \o c.raw ELSE @,
           !.app   = IF cleaned THEN [txt |-> c.txt, raw |-> c.raw] ELSE @]

\* An end of block that consumes the queue before it classifies the text.
EndBlockContextFirst(s, f) ==
    LET c == updateContext(s.ctx, s.queue)
        r == IF TrimSpace(s.buf) # ""
             THEN lintScope(f, s.summary, c, s.buf, s.act, s.tagHistory)
             ELSE [out |-> <<>>, summary |-> s.summary]
    IN  [s EXCEPT !.out = @ \o r.out,
                  !.tags = IF r.out # <<>> THEN s.tagHistory ELSE <<>>,
                  !.summary = r.summary,
                  !.ctx = c,
                  !.queue = <<>>,
                  !.tagHistory = <<>>,
                  !.buf = "",
                  !.act = ""]

\* An end of block that keeps the tag history.
EndBlockKeepTags(s, f) ==
    LET r == IF TrimSpace(s.buf) # ""
             THEN lintScope(f, s.summary, s.ctx, s.buf, s.act, s.tagHistory)
             ELSE [out |-> <<>>, summary |-> s.summary]
    IN  [s EXCEPT !.out = @ \o r.out,
                  !.tags = IF r.out # <<>> THEN s.tagHistory ELSE <<>>,
                  !.summary = r.summary,
                  !.ctx = updateContext(@, s.queue),
                  !.queue = <<>>,
                  !.buf = "",
                  !.act = ""]

\* lines 188-201
EndBlock(s, f) ==
    LET r == IF TrimSpace(s.buf) # ""
             THEN lintScope(f, s.summary, s.ctx, s.buf, s.act, s.tagHistory)
             ELSE [out |-> <<>>, summary |-> s.summary]
    IN  [s EXCEPT !.out = @ \o r.out,
                  !.tags = IF r.out # <<>> THEN s.tagHistory ELSE <<>>,
                  !.summary = r.summary,
                  !.ctx = updateContext(@, s.queue),
                  !.queue = <<>>,
                  !.tagHistory = <<>>,
                  !.buf = "",
                  !.act = ""]

\* An image rule that stops at the first alt attribute.
ImageAltsFirst(c, t) ==
    IF t.Data = "img" /\ getAttribute(t, "alt") # ""
    THEN <<NewBlock(c, getAttribute(t, "alt"), getAttribute(t, "alt"),
                    "text.attr.alt")>>
    ELSE <<>>

RECURSIVE altBlocks(_, _)
altBlocks(c, attrs) ==
    IF attrs = <<>> THEN <<>>
    ELSE (IF attrs[1].Key = "alt"
          THEN <<NewBlock(c, attrs[1].Val, attrs[1].Val,
                          "text.attr." \o attrs[1].Key)>>
          ELSE <<>>) \o altBlocks(c, Tail(attrs))

\* lines 206-213
ImageAlts(c, t) == IF t.Data = "img" THEN altBlocks(c, t.Attr) ELSE <<>>

\* lines 203-213
EndOfIteration(s, t) ==
    LET c == clearElements(s.ctx, t)
    IN  [s EXCEPT !.attr = getAttribute(t, "class"),
                  !.ctx = c,
                  !.out = @ \o ImageAlts(c, t)]

\* lines 150-213: one iteration of the loop on a token that is not the end.
Iterate(s, t, f, cfg, tags, classes) ==
    LET txt       == TokenText(t)
        skipClass == checkClasses(s.attr, classes)
        s1 == IF t.Type = "StartTag" /\ StringInSlice(txt, tags)
                  THEN EnterSkipBlock(s)
              ELSE IF s.inBlock /\ StringInSlice(txt, tags)
                  THEN LeaveSkipBlock(s)
              ELSE IF t.Type = "StartTag"
                  THEN StartTag(s, txt, cfg)
              ELSE IF t.Type = "EndTag" /\ StringInSlice(txt, inlineTags)
                  THEN InlineEndTag(s)
              ELSE IF t.Type = "Comment"
                  THEN CommentToken(s, txt)
              ELSE IF t.Type = "Text"
                  THEN TextToken(s, txt, f, skipClass)
              ELSE s
        s2 == IF t.Type = "EndTag" /\ ~StringInSlice(txt, inlineTags)
              THEN EndBlock(s1, f)
              ELSE s1
    IN  EndOfIteration(s2, t)

\* Elements without an end tag.
VoidTags == {"img", "br"}

\* The elements open since the start tag of the enclosing skip tag, by the
\* nesting of the tags themselves (not by the inBlock flag).
RegionAfter(r, t, tags) ==
    LET name == TokenText(t)
        hits == {k \in 1..Len(r) : r[k] = name}
    IN  IF t.Type = "StartTag"
        THEN IF r = <<>>
             THEN (IF StringInSlice(name, tags) THEN <<name>> ELSE <<>>)
             ELSE (IF name \in VoidTags THEN r ELSE Append(r, name))
        ELSE IF t.Type = "EndTag" /\ hits # {}
        THEN SubSeq(r, 1, (CHOOSE k \in hits : \A j \in hits : j <= k) - 1)
        ELSE r

\* The elements that are open after token t, by the nesting of the tags.
OpenAfter(o, t) ==
    LET name == TokenText(t)
        hits == {k \in 1..Len(o) : o[k] = name}
    IN  IF t.Type = "StartTag" /\ name \notin VoidTags
        THEN Append(o, name)
        ELSE IF t.Type = "EndTag" /\ hits # {}
        THEN SubSeq(o, 1, (CHOOSE k \in hits : \A j \in hits : j <= k) - 1)
        ELSE o

IsFinal(b, f) == b.Scope \in {"summary." \o f.RealExt, "raw." \o f.RealExt}

CountFinal(out, f, kind) ==
    Cardinality({k \in 1..Len(out) : out[k].Scope = kind \o f.RealExt})

\* What the observer records of a step that handed out to the rule engine.
Observe(out, app, tags, r) ==
    /\ emitted' = out
    /\ appended' = app
    /\ scopeTags' = tags
    /\ region' = r
    /\ called' = (called \/ out # <<>>)
    /\ nSummary' = nSummary + CountFinal(out, doc, "summary.")
    /\ nRaw' = nRaw + CountFinal(out, doc, "raw.")

(***************************************************************************)
(* lintHTMLTokens                                                          *)
(***************************************************************************)
\* lines 116-147: the set-up of a pass over the converted markup, with c the
\* context string the caller gives.
StartTokens(c) ==
    /\ pc' = "loop"
    /\ skipTags' = IF Len(config.SkippedScopes) > 0
                   THEN config.SkippedScopes ELSE skipTags
    /\ skipClasses' = IF Len(config.IgnoredClasses) > 0
                      THEN skipClasses \o config.IgnoredClasses
                      ELSE skipClasses
    /\ ctx' = c
    /\ tok' = NoToken
    /\ attr' = ""
    /\ tag' = ""
    /\ inBlock' = FALSE
    /\ inline' = FALSE
    /\ skip' = FALSE
    /\ buf' = ""
    /\ act' = ""
    /\ queue' = <<>>
    /\ tagHistory' = <<>>
    /\ UNCHANGED <<doc, config, markup, result, summary, observed, avars, nDocs, pvars>>

\* lines 149-214: tokens.Next() delivers t.
NextToken(t) ==
    /\ pc = "loop"
    /\ nTok < MaxTokens
    /\ t \in markup
    /\ \E s \in {Iterate(Locals, t, doc, config, skipTags, skipClasses)} :
           /\ ctx' = s.ctx
           /\ attr' = s.attr
           /\ tag' = s.tag
           /\ inBlock' = s.inBlock
           /\ inline' = s.inline
           /\ skip' = s.skip
           /\ buf' = s.buf
           /\ act' = s.act
           /\ queue' = s.queue
           /\ tagHistory' = s.tagHistory
           /\ summary' = s.summary
           /\ Observe(s.out, s.app, s.tags, RegionAfter(region, t, skipTags))
    /\ openTags' = OpenAfter(openTags, t)
    /\ tok' = t
    /\ nTok' = nTok + 1
    /\ UNCHANGED <<pc, doc, config, markup, env, result, globals, avars, nDocs, pvars>>

\* An end of pass that hands over the raw block only.
EndOfTokensRawOnly ==
    /\ pc = "loop"
    /\ pc' = "done"
    /\ result' = "ok"
    /\ tok' = Token("Error", "", <<>>)
    /\ Observe(<<NewBlock("", doc.Content, "", "raw." \o doc.RealExt)>>,
               [txt |-> "", raw |-> ""], <<>>, region)
    /\ UNCHANGED <<doc, config, markup, env, globals, ctx, attr, tag,
                   inBlock, inline, skip, buf, act, queue, tagHistory,
                   summary, nTok, avars, nDocs, pvars, openTags>>

\* lines 155-156 and 216-221: the ErrorToken ends the loop; the summary and
\* the raw block follow and the entry point returns nil.
EndOfTokens ==
    /\ pc = "loop"
    /\ pc' = "done"
    /\ result' = "ok"
    /\ tok' = Token("Error", "", <<>>)
    /\ Observe(<<NewBlock(doc.Content, summary, "", "summary." \o doc.RealExt),
                 NewBlock("", doc.Content, "", "raw." \o doc.RealExt)>>,
               [txt |-> "", raw |-> ""], <<>>, region)
    /\ UNCHANGED <<doc, config, markup, env, globals, ctx, attr, tag,
                   inBlock, inline, skip, buf, act, queue, tagHistory,
                   summary, nTok, avars, nDocs, pvars, openTags>>

(***************************************************************************)
(* prep (lines 342-383).  A regular expression of the configuration is a   *)
(* literal string here (it matches itself and has no group, so $1 expands  *)
(* to nothing); "(" is the one that does not compile, "[" the glob that    *)
(* does not.                                                               *)
(***************************************************************************)
BT3 == BT \o BT \o BT

GlobCompiles(g) == g # "["

GlobMatch(g, ext) == g = "*" \/ g = "*" \o ext

RegexCompiles(r) == r # "("

\* strings.Replace(s, old, new, 1)
ReplaceFirst(s, old, new) ==
    LET i == Index(s, old)
    IN  IF i = 0 THEN s
        ELSE SubSeq(s, 1, i - 1) \o new \o SubSeq(s, i + Len(old), Len(s))

\* pat.ReplaceAllString(s, repl) for a literal, non-empty pat
RECURSIVE ReplaceAll(_, _, _)
ReplaceAll(s, pat, repl) ==
    LET i == Index(s, pat)
    IN  IF i = 0 \/ pat = "" THEN s
        ELSE SubSeq(s, 1, i - 1) \o repl
                \o ReplaceAll(SubSeq(s, i + Len(pat), Len(s)), pat, repl)

\* len(pat.FindAllStringSubmatch(s, -1)) for a literal, non-empty pat
RECURSIVE CountMatches(_, _)
CountMatches(s, pat) ==
    LET i == Index(s, pat)
    IN  IF i = 0 \/ pat = "" THEN 0
        ELSE 1 + CountMatches(SubSeq(s, i + Len(pat), Len(s)), pat)

\* A replacement template with $1 (or, for fmt.Sprintf, %s) set to arg.
Expand(template, hole, arg) == ReplaceFirst(template, hole, arg)

\* reFrontMatter.ReplaceAllString(content, block)
FrontMatter(content, block) ==
    LET fences == {"---", "+++"}
        ends   == {j \in 6..(Len(content) - 3) :
                      /\ Char(content, j) = "\n"
                      /\ SubSeq(content, j + 1, j + 3) \in fences}
    IN  IF /\ Len(content) >= 4
           /\ SubSeq(content, 1, 3) \in fences
           /\ Char(content, 4) = "\n"
           /\ ends # {}
        THEN LET j == CHOOSE m \in ends : \A n \in ends : m <= n
             IN  Expand(block, "$1", SubSeq(content, 5, j - 1))
                    \o SubSeq(content, j + 4, Len(content))
        ELSE content

RECURSIVE Join(_, _)
Join(ls, sep) ==
    IF ls = <<>> THEN ""
    ELSE IF Len(ls) = 1 THEN ls[1]
    ELSE ls[1] \o sep \o Join(Tail(ls), sep)

\* One line under reExInfo: the match runs from the first ``` that has a
\* character after it to the end of the line; 0 when the line has none.
ExInfoAt(line) ==
    LET i == Index(line, BT3)
    IN  IF i # 0 /\ i + 3 <= Len(line) THEN i ELSE 0

StripExInfoLine(line) ==
    LET i == ExInfoAt(line)
    IN  IF i = 0 THEN line ELSE SubSeq(line, 1, i - 1) \o BT3

\* reExInfo.ReplaceAllString(s, "```")
StripExInfo(s) ==
    LET ls == Split(s, "\n")
    IN  Join([k \in 1..Len(ls) |-> StripExInfoLine(ls[k])], "\n")

\* lines 402-405: the replacement function applied to the match of one line
MaskExInfoLine(line) ==
    LET i     == ExInfoAt(line)
        parts == Split(SubSeq(line, i, Len(line)), BT)
    IN  IF i = 0 THEN line
        ELSE SubSeq(line, 1, i - 1) \o BT3
                \o Repeat("*", Len(parts[Len(parts)]))

\* lines 402-405: the info string is masked by asterisks
MaskExInfo(s) ==
    LET ls == Split(s, "\n")
    IN  Join([k \in 1..Len(ls) |-> MaskExInfoLine(ls[k])], "\n")

\* A loop over the regexes that gives up at the first that does not compile.
RECURSIVE prepTokenRegexesStop(_, _, _)
prepTokenRegexesStop(s, regexes, inlineT) ==
    IF regexes = <<>> \/ ~RegexCompiles(regexes[1]) THEN s
    ELSE prepTokenRegexesStop(
             ReplaceAll(s, regexes[1], Expand(inlineT, "$1", "")),
             Tail(regexes), inlineT)

\* lines 351-356
RECURSIVE prepTokenRegexes(_, _, _)
prepTokenRegexes(s, regexes, inlineT) ==
    IF regexes = <<>> THEN s
    ELSE prepTokenRegexes(
             IF RegexCompiles(regexes[1])
             THEN ReplaceAll(s, regexes[1], Expand(inlineT, "$1", ""))
             ELSE s,
             Tail(regexes), inlineT)

\* lines 370-373, core.Indent(c[0], "    ") of a one-line match
RECURSIVE prepPad(_, _, _, _)
prepPad(s, pat, block, n) ==
    IF n = 0 THEN s
    ELSE prepPad(ReplaceFirst(s, pat, Expand(block, "%s", "    " \o pat)),
                 pat, block, n - 1)

\* lines 365-378
RECURSIVE prepBlockRegexes(_, _, _, _)
prepBlockRegexes(s, regexes, block, ext) ==
    IF regexes = <<>> THEN s
    ELSE prepBlockRegexes(
             IF ~RegexCompiles(regexes[1]) THEN s
             ELSE IF ext = ".rst"
             THEN prepPad(s, regexes[1], block, CountMatches(s, regexes[1]))
             ELSE ReplaceAll(s, regexes[1], Expand(block, "$1", "")),
             Tail(regexes), block, ext)

\* lines 346-358 and 360-380: the sections of one ignore table, in the
\* order the map is ranged over; r is [s, err].
RECURSIVE prepSections(_, _, _, _, _)
prepSections(r, sections, template, ext, isBlock) ==
    IF sections = <<>> \/ r.err THEN r
    ELSE IF ~GlobCompiles(sections[1].glob) THEN [s |-> r.s, err |-> TRUE]
    ELSE prepSections(
             IF GlobMatch(sections[1].glob, ext)
             THEN [s   |-> IF isBlock
                           THEN prepBlockRegexes(r.s, sections[1].regexes,
                                                 template, ext)
                           ELSE prepTokenRegexes(r.s, sections[1].regexes,
                                                 template),
                   err |-> FALSE]
             ELSE r,
             Tail(sections), template, ext, isBlock)

prep(cfg, content, block, inlineT, ext) ==
    LET s0 == StripExInfo(FrontMatter(content, block))
        r1 == prepSections([s |-> s0, err |-> FALSE], cfg.TokenIgnores,
                           inlineT, ext, FALSE)
    IN  prepSections(r1, cfg.BlockIgnores, block, ext, TRUE)

(***************************************************************************)
(* Documents, configurations and what the converters may give back.        *)
(***************************************************************************)
DefaultConfig ==
    [SkippedScopes |-> <<>>, IgnoredClasses |-> <<>>, IgnoredScopes |-> <<>>,
     TokenIgnores |-> <<>>, BlockIgnores |-> <<>>, SphinxBuild |-> ""]

IgnoreConfig ==
    [DefaultConfig EXCEPT
        !.TokenIgnores = <<[glob |-> "*", regexes |-> <<"(", "c">>]>>,
        !.BlockIgnores = <<[glob |-> "*.rst", regexes |-> <<"b">>]>>]

BadGlobConfig ==
    [DefaultConfig EXCEPT
        !.BlockIgnores = <<[glob |-> "[", regexes |-> <<"a">>]>>]

SphinxConfig == [DefaultConfig EXCEPT !.SphinxBuild = "_build"]

Content == "a b c pre u a"

File(format, ext, content, transform) ==
    [Format |-> format, NormedExt |-> ext, RealExt |-> ext,
     Content |-> content, Transform |-> transform]

\* The document, the configuration and the converted markup of a run.
Runs ==
    {<<File("html", ".html", Content, ""), DefaultConfig, BlockMarkup>>,
     <<File("md", ".md", BT3 \o "x" \o BT \o "y\n" \o Content, ""),
       DefaultConfig, SkipMarkup>>,
     <<File("rst", ".rst", Content, ""), DefaultConfig, InlineMarkup>>,
     <<File("adoc", ".adoc", Content, ""), IgnoreConfig, InlineMarkup>>,
     <<File("xml", ".xml", Content, "t.xsl"), DefaultConfig, PlainMarkup>>,
     <<File("xml", ".xml", Content, ""), DefaultConfig, PlainMarkup>>,
     <<File("dita", ".dita", Content, ""), DefaultConfig, PlainMarkup>>,
     <<File("md", ".md", Content, ""), BadGlobConfig, PlainMarkup>>,
     <<File("rst", ".rst", Content, ""), BadGlobConfig, PlainMarkup>>,
     <<File("adoc", ".adoc", Content, ""), BadGlobConfig, PlainMarkup>>,
     <<File("rst", ".rst", Content, ""), SphinxConfig, PlainMarkup>>}

\* core.Which: the executable found, "" when none is on the search path.
WhichResults(name) == {"", name}

\* What the tools and the converters answered to the entry point: the
\* executables core.Which found, whether the conversion (cmd.Run or
\* goldMd.Convert), ioutil.ReadFile and ioutil.TempDir returned an error,
\* and the converter's output.
NoEnv ==
    [rst2html |-> "", python |-> "", asciidoctor |-> "", xsltproc |-> "",
     dita |-> "", runErr |-> FALSE, readErr |-> FALSE, tempErr |-> FALSE,
     out |-> ""]

\* What rst2html writes to its standard output.
RstOutputs == {"<body>\nx\r\n</body>", "<body>\n", "\n</body><body>\n"}

\* What dita leaves in the generated file.
DitaOutputs == {"<head>h</head>x", "x", "</head><head>"}

\* bytes.Replace(out, "\r", "", -1)
RemoveCR(s) == Join(Split(s, "\r"), "")

\* lines 460-472: [low, high] of html[bodyStart+7 : bodyEnd], 0-based
RstBodyBounds(html) ==
    LET n         == Len(html)
        bodyStart == IF Index(html, "<body>\n") = 0 THEN -7
                     ELSE Index(html, "<body>\n") - 1
        e         == Index(html, "\n</body>") - 1
        bodyEnd   == IF e < 0 \/ e >= n
                     THEN (IF n - 1 < 0 THEN 0 ELSE n - 1)
                     ELSE e
    IN  [low |-> bodyStart + 7, high |-> bodyEnd]

\* lines 570-573: [head1, head2] of append(data[:head1], data[head2:]...)
DitaHeadBounds(data) ==
    [head1 |-> Index(data, "<head>") - 1, head2 |-> Index(data, "</head>") - 1]

(***************************************************************************)
(* The entry points.                                                       *)
(***************************************************************************)
\* return core.NewE100(...) / core.NewE201FromPosition(...)
Fail(kind) ==
    /\ pc' = "done"
    /\ result' = kind
    /\ UNCHANGED <<doc, config, markup, skipTags, skipClasses, locals,
                   observed, avars, nDocs, pvars>>

\* A slice expression out of range: the run-time panic ends the entry point.
Panic == Fail("panic")

\* lines 338-340
lintHTML ==
    /\ pc = "entry" /\ doc.Format = "html"
    /\ StartTokens(doc.Content)
    /\ UNCHANGED <<xsltArgs, env>>

\* lines 385-409
lintMarkdown ==
    /\ pc = "entry" /\ doc.Format = "md"
    /\ IF prep(config, doc.Content, "\n" \o BT3 \o "\n$1\n" \o BT3 \o "\n",
               BT \o "$1" \o BT, ".md").err
       THEN Fail("E100") /\ UNCHANGED env
       ELSE \E convertErr \in BOOLEAN :
               /\ env' = [env EXCEPT !.runErr = convertErr]
               /\ IF convertErr THEN Fail("E100")
                  ELSE StartTokens(MaskExInfo(doc.Content))
    /\ UNCHANGED xsltArgs

\* lines 411-424
lintSphinx ==
    \E readErr \in BOOLEAN :
       /\ env' = [env EXCEPT !.rst2html = "rst2html", !.python = "python",
                             !.readErr = readErr]
       /\ IF readErr THEN Fail("E100") ELSE StartTokens(doc.Content)

\* lines 437-474: the conversion by rst2html
lintRSTConvert ==
    IF prep(config, doc.Content, "\n::\n\n%s\n",
            BT \o BT \o "$1" \o BT \o BT, ".rst").err
    THEN /\ env' = [env EXCEPT !.rst2html = "rst2html", !.python = "python"]
         /\ Fail("E100")
    ELSE \E runErr \in BOOLEAN, out \in RstOutputs :
            /\ env' = [env EXCEPT !.rst2html = "rst2html",
                                  !.python = "python",
                                  !.runErr = runErr,
                                  !.out = IF runErr THEN "" ELSE out]
            /\ IF runErr THEN Fail("E201")
               ELSE LET b == RstBodyBounds(RemoveCR(out))
                    IN  IF b.low > b.high THEN Panic
                        ELSE StartTokens(doc.Content)

\* lines 426-475
lintRST ==
    /\ pc = "entry" /\ doc.Format = "rst"
    /\ \E rst2html \in WhichResults("rst2html"),
          python \in WhichResults("python") :
          IF rst2html = "" \/ python = ""
          THEN /\ env' = [env EXCEPT !.rst2html = rst2html,
                                     !.python = python]
               /\ Fail("E100")
          ELSE IF config.SphinxBuild # "" THEN lintSphinx
          ELSE lintRSTConvert
    /\ UNCHANGED xsltArgs

\* An entry point that goes on to the tokens whatever asciidoctor returned.
lintADocIgnoreRunErr ==
    /\ pc = "entry" /\ doc.Format = "adoc"
    /\ \E asciidoctor \in WhichResults("asciidoctor") :
          IF asciidoctor = "" \/
             prep(config, doc.Content, "\n----\n$1\n----\n",
                  BT \o "$1" \o BT, ".adoc").err
          THEN /\ env' = [env EXCEPT !.asciidoctor = asciidoctor]
               /\ Fail("E100")
          ELSE \E runErr \in BOOLEAN :
                  /\ env' = [env EXCEPT !.asciidoctor = asciidoctor,
                                        !.runErr = runErr]
                  /\ StartTokens(doc.Content)
    /\ UNCHANGED xsltArgs

\* lines 477-510
lintADoc ==
    /\ pc = "entry" /\ doc.Format = "adoc"
    /\ \E asciidoctor \in WhichResults("asciidoctor") :
          IF asciidoctor = "" \/
             prep(config, doc.Content, "\n----\n$1\n----\n",
                  BT \o "$1" \o BT, ".adoc").err
          THEN /\ env' = [env EXCEPT !.asciidoctor = asciidoctor]
               /\ Fail("E100")
          ELSE \E runErr \in BOOLEAN :
                  /\ env' = [env EXCEPT !.asciidoctor = asciidoctor,
                                        !.runErr = runErr]
                  /\ IF runErr THEN Fail("E100")
                     ELSE StartTokens(doc.Content)
    /\ UNCHANGED xsltArgs

\* lines 512-536
lintXML ==
    /\ pc = "entry" /\ doc.Format = "xml"
    /\ \E xsltproc \in WhichResults("xsltproc") :
          IF xsltproc = "" \/ doc.Transform = ""
          THEN /\ env' = [env EXCEPT !.xsltproc = xsltproc]
               /\ Fail("E100")
               /\ UNCHANGED xsltArgs
          ELSE \E runErr \in BOOLEAN :
                  /\ env' = [env EXCEPT !.xsltproc = xsltproc,
                                        !.runErr = runErr]
                  /\ xsltArgs' = xsltArgs \o <<doc.Transform, "-">>
                  /\ IF runErr THEN Fail("E100")
                     ELSE StartTokens(doc.Content)

\* lines 551-575: the conversion by dita, once the temporary directory is
\* there
lintDITAConvert ==
    \E runErr \in BOOLEAN :
       IF runErr
       THEN /\ env' = [env EXCEPT !.dita = "dita", !.runErr = TRUE]
            /\ Fail("E100")
       ELSE \E readErr \in BOOLEAN :
               IF readErr
               THEN /\ env' = [env EXCEPT !.dita = "dita", !.readErr = TRUE]
                    /\ Fail("E201")
               ELSE \E data \in DitaOutputs :
                       /\ env' = [env EXCEPT !.dita = "dita", !.out = data]
                       /\ LET h == DitaHeadBounds(data)
                          IN  IF h.head1 < 0 \/ h.head2 < 0 THEN Panic
                              ELSE StartTokens(doc.Content)

\* lines 538-576
lintDITA ==
    /\ pc = "entry" /\ doc.Format = "dita"
    /\ \E dita \in WhichResults("dita") :
          IF dita = ""
          THEN env' = [env EXCEPT !.dita = ""] /\ Fail("E100")
          ELSE \E tempErr \in BOOLEAN :
                  IF tempErr
                  THEN /\ env' = [env EXCEPT !.dita = dita, !.tempErr = TRUE]
                       /\ Fail("E201")
                  ELSE lintDITAConvert
    /\ UNCHANGED xsltArgs

(***************************************************************************)
(* The specification of one document's lint.                               *)
(***************************************************************************)
\* lines 60-67
xsltArgsDefault ==
    <<"--stringparam", "use.extensions", "0",
      "--stringparam", "generate.toc", "nop">>

\* No call of prep on its own.
NoPrepInput ==
    [cfg |-> DefaultConfig, content |-> "", block |-> "", inlineT |-> "",
     ext |-> ""]

NoPrepResult == [s |-> "", err |-> FALSE, done |-> FALSE]

\* The first document of a process, one of runs.
InitOf(runs) ==
    /\ pc = "entry"
    /\ \E r \in runs : doc = r[1] /\ config = r[2] /\ markup = r[3]
    /\ result = "none"
    /\ skipTags = skipTagsDefault
    /\ skipClasses = skipClassesDefault
    /\ xsltArgs = xsltArgsDefault
    /\ ctx = ""
    /\ tok = NoToken
    /\ attr = ""
    /\ tag = ""
    /\ inBlock = FALSE
    /\ inline = FALSE
    /\ skip = FALSE
    /\ buf = ""
    /\ act = ""
    /\ queue = <<>>
    /\ tagHistory = <<>>
    /\ summary = ""
    /\ emitted = <<>>
    /\ appended = [txt |-> "", raw |-> ""]
    /\ scopeTags = <<>>
    /\ env = NoEnv
    /\ region = <<>>
    /\ nTok = 0
    /\ called = FALSE
    /\ nSummary = 0
    /\ nRaw = 0
    /\ actx = ""
    /\ aprev = ""
    /\ afrag = ""
    /\ aspans = <<>>
    /\ aredacted = {}
    /\ acalls = 0
    /\ nDocs = 1
    /\ pin = NoPrepInput
    /\ openTags = <<>>
    /\ pres = NoPrepResult

Init == InitOf(Runs)

Next ==
    \/ lintHTML
    \/ lintMarkdown
    \/ lintRST
    \/ lintADoc
    \/ lintXML
    \/ lintDITA
    \/ \E t \in Tokens : NextToken(t)
    \/ EndOfTokens

(***************************************************************************)
(* The context tracker on its own: a context string and a sequence of      *)
(* advance calls with arbitrary fragments.                                 *)
(***************************************************************************)
MaxCtxLen == 4
MaxCalls == 2

CtxAlphabet == {"a", "b", " "}

RECURSIVE StringsUpTo(_)
StringsUpTo(n) ==
    IF n = 0 THEN {""}
    ELSE LET S == StringsUpTo(n - 1)
         IN  S \cup {s \o c : s \in {t \in S : Len(t) = n - 1}, c \in CtxAlphabet}

CtxInputs == StringsUpTo(MaxCtxLen)

Fragments ==
    {"", "a", "b", "ab", "a b", "a  b", "b a", "a\nb", "ab\n\nb a", "@", "a@"}

\* The positions among 1..n that a list of spans covers.
Covered(spans, n) ==
    {p \in 1..n :
        \E k \in 1..Len(spans) :
            spans[k].at <= p /\ p < spans[k].at + spans[k].len}

AdvInit ==
    /\ pc = "advance"
    /\ doc = File("html", ".html", "", "")
    /\ config = DefaultConfig
    /\ markup = {}
    /\ result = "none"
    /\ skipTags = skipTagsDefault
    /\ skipClasses = skipClassesDefault
    /\ xsltArgs = <<>>
    /\ ctx = "" /\ tok = NoToken /\ attr = "" /\ tag = ""
    /\ inBlock = FALSE /\ inline = FALSE /\ skip = FALSE
    /\ buf = "" /\ act = "" /\ queue = <<>> /\ tagHistory = <<>>
    /\ summary = ""
    /\ emitted = <<>> /\ appended = [txt |-> "", raw |-> ""]
    /\ scopeTags = <<>> /\ env = NoEnv
    /\ region = <<>> /\ nTok = 0 /\ called = FALSE
    /\ nSummary = 0 /\ nRaw = 0
    /\ actx \in CtxInputs
    /\ aprev = actx
    /\ afrag = ""
    /\ aspans = <<>>
    /\ aredacted = {}
    /\ acalls = 0
    /\ nDocs = 0
    /\ pin = NoPrepInput
    /\ openTags = <<>>
    /\ pres = NoPrepResult

Advance(frag) ==
    /\ acalls < MaxCalls
    /\ LET r == updateCtxTrace(actx, frag, "Text")
       IN  /\ actx' = r.ctx
           /\ aspans' = r.spans
           /\ aredacted' = aredacted \cup Covered(aspans, Len(actx))
    /\ aprev' = actx
    /\ afrag' = frag
    /\ acalls' = acalls + 1
    /\ UNCHANGED <<pc, doc, config, markup, env, result, globals, locals,
                   observed, nDocs, pvars>>

AdvNext == \E frag \in Fragments : Advance(frag)

SpecAdvance == AdvInit /\ [][AdvNext]_vars

(***************************************************************************)
(* Several documents linted one after the other in one process: the        *)
(* package-level variables keep what the documents before left in them.    *)
(***************************************************************************)
MaxDocs == 2

SkipConfig ==
    [DefaultConfig EXCEPT !.SkippedScopes = <<"figure">>,
                          !.IgnoredClasses = <<"x">>]

DocRuns ==
    {<<File("xml", ".xml", Content, "t.xsl"), DefaultConfig, PlainMarkup>>,
     <<File("xml", ".xml", Content, "u.xsl"), DefaultConfig, PlainMarkup>>,
     <<File("html", ".html", Content, ""), SkipConfig, PlainMarkup>>,
     <<File("html", ".html", Content, ""), DefaultConfig, PlainMarkup>>}

DocInit == InitOf(DocRuns)

\* The entry point has returned and the next file is given to its entry
\* point: a new core.File and new locals, the same package-level variables.
NextFile ==
    /\ pc = "done"
    /\ nDocs < MaxDocs
    /\ nDocs' = nDocs + 1
    /\ pc' = "entry"
    /\ \E r \in DocRuns : doc' = r[1] /\ config' = r[2] /\ markup' = r[3]
    /\ result' = "none"
    /\ env' = NoEnv
    /\ ctx' = "" /\ tok' = NoToken /\ attr' = "" /\ tag' = ""
    /\ inBlock' = FALSE /\ inline' = FALSE /\ skip' = FALSE
    /\ buf' = "" /\ act' = "" /\ queue' = <<>> /\ tagHistory' = <<>>
    /\ summary' = ""
    /\ emitted' = <<>> /\ appended' = [txt |-> "", raw |-> ""]
    /\ scopeTags' = <<>> /\ region' = <<>> /\ nTok' = 0
    /\ called' = FALSE /\ nSummary' = 0 /\ nRaw' = 0
    /\ openTags' = <<>>
    /\ UNCHANGED <<globals, avars, pvars>>

DocNext ==
    \/ lintHTML
    \/ lintXML
    \/ \E t \in Tokens : NextToken(t)
    \/ EndOfTokens
    \/ NextFile

SpecDocs == DocInit /\ [][DocNext]_vars

(***************************************************************************)
(* prep on its own: one call on a configuration, a content and the         *)
(* templates and extension of one of the entry points that call it.        *)
(***************************************************************************)
MaxRegexes == 2

PrepRegexes == {"(", "b", "c"}

RECURSIVE RegexLists(_)
RegexLists(n) ==
    IF n = 0 THEN {<<>>}
    ELSE LET S == RegexLists(n - 1)
         IN  S \cup {Append(l, r) : l \in {m \in S : Len(m) = n - 1},
                                    r \in PrepRegexes}

PrepGlobs == {"*", "*.md", "["}

PrepConfigs ==
    {[DefaultConfig EXCEPT
         !.TokenIgnores = <<[glob |-> g1, regexes |-> r1]>>,
         !.BlockIgnores = <<[glob |-> g2, regexes |-> r2]>>] :
       g1 \in PrepGlobs, r1 \in RegexLists(MaxRegexes),
       g2 \in PrepGlobs, r2 \in {<<>>, <<"b">>, <<"(", "b">>}}

\* The templates and the extension lintMarkdown, lintRST and lintADoc give.
PrepCallers ==
    {[block |-> "\n" \o BT3 \o "\n$1\n" \o BT3 \o "\n",
      inlineT |-> BT \o "$1" \o BT, ext |-> ".md"],
     [block |-> "\n::\n\n%s\n",
      inlineT |-> BT \o BT \o "$1" \o BT \o BT, ext |-> ".rst"],
     [block |-> "\n----\n$1\n----\n",
      inlineT |-> BT \o "$1" \o BT, ext |-> ".adoc"]}

PrepContent == "---\nx\n---\nb c b"

PrepInit ==
    /\ pc = "prep"
    /\ doc = File("html", ".html", "", "")
    /\ config = DefaultConfig
    /\ markup = {}
    /\ result = "none"
    /\ skipTags = skipTagsDefault
    /\ skipClasses = skipClassesDefault
    /\ xsltArgs = xsltArgsDefault
    /\ ctx = "" /\ tok = NoToken /\ attr = "" /\ tag = ""
    /\ inBlock = FALSE /\ inline = FALSE /\ skip = FALSE
    /\ buf = "" /\ act = "" /\ queue = <<>> /\ tagHistory = <<>>
    /\ summary = ""
    /\ emitted = <<>> /\ appended = [txt |-> "", raw |-> ""]
    /\ scopeTags = <<>> /\ env = NoEnv
    /\ region = <<>> /\ nTok = 0 /\ called = FALSE
    /\ nSummary = 0 /\ nRaw = 0
    /\ actx = "" /\ aprev = "" /\ afrag = "" /\ aspans = <<>>
    /\ aredacted = {} /\ acalls = 0
    /\ nDocs = 0
    /\ \E c \in PrepConfigs, f \in PrepCallers :
          pin = [cfg |-> c, content |-> PrepContent, block |-> f.block,
                 inlineT |-> f.inlineT, ext |-> f.ext]
    /\ pres = NoPrepResult
    /\ openTags = <<>>

\* lines 342-383: s, err := l.prep(content, block, inline, ext)
Prep ==
    /\ pc = "prep"
    /\ ~pres.done
    /\ \E r \in {prep(pin.cfg, pin.content, pin.block, pin.inlineT, pin.ext)} :
          pres' = [s |-> r.s, err |-> r.err, done |-> TRUE]
    /\ UNCHANGED <<pc, doc, config, markup, env, result, globals, locals,
                   observed, avars, nDocs, pin>>

SpecPrep == PrepInit /\ [][Prep]_vars

Spec == Init /\ [][Next]_vars


(***************************************************************************)
(* Properties of the token pass (Spec).                                    *)
(***************************************************************************)
NonInlineEndTag(t) ==
    t.Type = "EndTag" /\ ~StringInSlice(TokenText(t), inlineTags)

\* C1: a pass that ends has handed the rule engine exactly one block of
\* scope summary.<format> and exactly one of scope raw.<format>, whatever the
\* tokens were (none included); while tokens are read neither scope has been
\* handed over, so no block emitted for a token carries one of them.
C1_SummaryAndRawOnce ==
    /\ pc = "loop" =>
          /\ nSummary = 0
          /\ nRaw = 0
          /\ \A k \in 1..Len(emitted) : ~IsFinal(emitted[k], doc)
    /\ (pc = "done" /\ result = "ok") => (nSummary = 1 /\ nRaw = 1)

\* The pass over an empty token stream has ended.
C1_EmptyStreamDone ==
    /\ pc = "done" /\ result = "ok" /\ nTok = 0
    /\ nSummary = 1 /\ nRaw = 1
    /\ Len(emitted) = 2

\* C2: the text of a Text token between the start tag of a skip tag and the
\* end tag that matches it is not handed to the rule engine as the text of an
\* immediate block.
C2_SkipTextNotLinted ==
    (pc = "loop" /\ tok.Type = "Text" /\ region # <<>>) =>
        \A k \in 1..Len(emitted) : emitted[k].Text # TokenText(tok)

\* C3: after the end tag of a tag that is neither inline nor a skip tag, the
\* tag history, the rendered and the raw accumulator and the queue are empty.
C3_ResetAfterEndTag ==
    (/\ pc = "loop"
     /\ NonInlineEndTag(tok)
     /\ ~StringInSlice(TokenText(tok), skipTags)) =>
        (tagHistory = <<>> /\ buf = "" /\ act = "" /\ queue = <<>>)

\* An end tag has flushed a block that held text.
C3_BlockFlushed ==
    /\ pc = "loop"
    /\ tok = EndTagToken("p")
    /\ emitted # <<>>
    /\ tagHistory = <<>> /\ buf = "" /\ queue = <<>>

\* A tag that has an entry in the scope table and is an inline tag.
ScopedInline(name) ==
    name \in DOMAIN tagToScope /\ StringInSlice(name, inlineTags)

\* The step reads a Text token that gets to the text rule (lines 170-186).
TextRuleStep ==
    /\ pc = "loop" /\ pc' = "loop"
    /\ nTok' = nTok + 1
    /\ tok'.Type = "Text"
    /\ ~(inBlock /\ StringInSlice(TokenText(tok'), skipTags))

\* The rendered form of the text is redacted: the tag is one of the tags
\* skipped for position (tt and code by default) or the token before carried
\* a class of the skip classes.
RedactedInline ==
    \/ StringInSlice(tag, skipped(config))
    \/ checkClasses(attr, skipClasses)

\* C4 (as first stated): the text of an immediate block is also appended,
\* as it is, to the rendered and to the raw accumulator.
C4_InlineTextAppendedAsIs ==
    (pc = "loop" /\ tok.Type = "Text" /\ emitted # <<>>) =>
        /\ Index(appended.txt, emitted[1].Text) # 0
        /\ Index(appended.raw, emitted[1].Text) # 0

\* C4: a Text token that gets to the text rule while the current tag is an
\* inline tag of the scope table gives exactly one immediate block, of the
\* table's scope, with the token's text as rendered and raw text and the
\* context advanced by the queue so far, and clears the current tag; any
\* other Text token gives none.  Outside a skip block a non-empty text is
\* then appended to both accumulators: readable in the raw one, and in the
\* rendered one readable unless the tag is skipped for position or a skip
\* class applies, in which case asterisks take its place.  Inside a skip
\* block, or when empty, it is appended to neither.
C4_InlineTextLintedOnce ==
    [][TextRuleStep =>
        LET txt == TokenText(tok')
        IN  IF ScopedInline(tag)
            THEN /\ emitted' = <<[Context |-> updateContext(ctx, queue),
                                  Text |-> txt, Raw |-> txt,
                                  Scope |-> tagToScope[tag],
                                  via |-> "lintText"]>>
                 /\ tag' = ""
                 /\ buf' = buf \o appended'.txt
                 /\ act' = act \o appended'.raw
                 /\ IF inBlock \/ txt = ""
                    THEN appended' = [txt |-> "", raw |-> ""]
                    ELSE /\ Index(appended'.raw, txt) # 0
                         /\ IF RedactedInline
                            THEN /\ Index(appended'.txt, txt) = 0
                                 /\ Index(appended'.txt,
                                          Repeat("*", Len(txt))) # 0
                            ELSE Index(appended'.txt, txt) # 0
            ELSE emitted' = <<>>
    ]_vars

\* The text of a code element was linted at once and went redacted into the
\* rendered accumulator.
C4_CodeLintedAndRedacted ==
    /\ pc = "loop" /\ tok.Type = "Text"
    /\ emitted # <<>>
    /\ emitted[1].Scope = "code"
    /\ emitted[1].Text = "a"
    /\ Index(appended.txt, "*") # 0
    /\ Index(appended.raw, "a") # 0

\* What the entry point was told: a tool was not found (or no transform was
\* given), a glob of the ignore tables did not compile where prep runs, or
\* the conversion, the read of its result or the temporary directory failed.
LookupFailed ==
    \/ doc.Format = "rst" /\ (env.rst2html = "" \/ env.python = "")
    \/ doc.Format = "adoc" /\ env.asciidoctor = ""
    \/ doc.Format = "xml" /\ (env.xsltproc = "" \/ doc.Transform = "")
    \/ doc.Format = "dita" /\ env.dita = ""

HasBadGlob(cfg) ==
    \/ \E k \in 1..Len(cfg.TokenIgnores) : cfg.TokenIgnores[k].glob = "["
    \/ \E k \in 1..Len(cfg.BlockIgnores) : cfg.BlockIgnores[k].glob = "["

PrepFailed ==
    /\ HasBadGlob(config)
    /\ \/ doc.Format \in {"md", "adoc"}
       \/ doc.Format = "rst" /\ config.SphinxBuild = ""

ConversionFailed == env.runErr \/ env.readErr \/ env.tempErr

\* C7: once the entry point has met a failed tool lookup, a failed prep or a
\* failed conversion it has returned an error (E100 or E201) and the rule
\* engine was never called: no block for a token, no summary, no raw block.
\* An entry point ended by a run-time panic has called the rule engine
\* no more often.
C7_FailureMeansNoBlocks ==
    /\ (pc \notin {"entry", "advance"}
          /\ (LookupFailed \/ PrepFailed \/ ConversionFailed)) =>
          /\ pc = "done"
          /\ result \in {"E100", "E201"}
          /\ ~called /\ emitted = <<>> /\ nSummary = 0 /\ nRaw = 0
    /\ result = "panic" =>
          (pc = "done" /\ ~called /\ emitted = <<>>
             /\ nSummary = 0 /\ nRaw = 0)

\* rst2html was found and ran into an error.
C7_ConverterFailed ==
    /\ pc = "done" /\ result = "E201"
    /\ doc.Format = "rst" /\ env.rst2html # "" /\ env.runErr
    /\ ~called

\* The entry of a tag history, counted from the oldest, that is the first
\* (or the last) with a scope of its own; 0 when there is none.
OutermostScoped(tags) ==
    IF \E k \in 1..Len(tags) : Scoped(tags[k])
    THEN CHOOSE k \in 1..Len(tags) :
            Scoped(tags[k]) /\ \A j \in 1..(k - 1) : ~Scoped(tags[j])
    ELSE 0

InnermostScoped(tags) ==
    IF \E k \in 1..Len(tags) : Scoped(tags[k])
    THEN CHOOSE k \in 1..Len(tags) :
            Scoped(tags[k]) /\ \A j \in (k + 1)..Len(tags) : ~Scoped(tags[j])
    ELSE 0

\* The block that an end tag flushed carries the label of entry k of the
\* tag history it was classified with, or went to lintProse when k is 0.
LabelledBy(k) ==
    IF k = 0 THEN emitted[1].via = "lintProse"
    ELSE /\ emitted[1].via = "lintText"
         /\ emitted[1].Scope =
               (IF heading(scopeTags[k])
                THEN "text.heading." \o scopeTags[k]
                ELSE tagToScope[scopeTags[k]]) \o doc.RealExt

BlockFlushed == pc = "loop" /\ NonInlineEndTag(tok) /\ emitted # <<>>

\* C8 (as first stated): the innermost entry of the tag history that has a
\* scope of its own decides the label of the block.
C8_InnermostDecides == BlockFlushed => LabelledBy(InnermostScoped(scopeTags))

\* C8: the tag history is walked from the oldest entry on, so the outermost
\* entry that has a non-inline entry in the scope table or is a heading
\* decides the label: text of a list item inside a blockquote is labelled
\* as blockquote text.
C8_OutermostDecides == BlockFlushed => LabelledBy(OutermostScoped(scopeTags))

\* A list item inside a blockquote was flushed.
C8_ListItemInBlockquote ==
    /\ BlockFlushed
    /\ scopeTags = <<"blockquote", "li">>
    /\ emitted[1].Scope = "text.blockquote.html"

\* C9: a Text token inside a skip block is appended to the queue.
C9_SkipTextQueued ==
    (pc = "loop" /\ tok.Type = "Text" /\ region # <<>>) =>
        (queue # <<>> /\ queue[Len(queue)] = TokenText(tok))

\* The blocks the image rule is to give for the attributes of a token.
RECURSIVE AltBlocksOf(_, _)
AltBlocksOf(c, attrs) ==
    IF attrs = <<>> THEN <<>>
    ELSE LET rest == AltBlocksOf(c, Tail(attrs))
         IN  IF Head(attrs).Key = "alt"
             THEN <<[Context |-> c, Text |-> Head(attrs).Val,
                     Raw |-> Head(attrs).Val, Scope |-> "text.attr.alt",
                     via |-> "lintText"]>> \o rest
             ELSE rest

\* The step reads the start tag or the self-closing tag of an image.
ImgStep ==
    /\ pc = "loop" /\ pc' = "loop"
    /\ nTok' = nTok + 1
    /\ tok'.Type \in {"StartTag", "SelfClosingTag"}
    /\ tok'.Data = "img"

\* C10: an img tag gives one immediate block for each of its alt
\* attributes, in their order, of scope text.attr.alt and with the value as
\* rendered and raw text, and nothing else; the queue and both accumulators
\* are as before, no block is flushed, and the tag history holds what the
\* start-tag rule made of it (img pushed by a start tag outside a skip
\* block's opening, nothing for a self-closing tag): the image rule adds
\* nothing to it.
C10_ImgAltBlocks ==
    [][ImgStep =>
        /\ emitted' = AltBlocksOf(ctx', tok'.Attr)
        /\ queue' = queue
        /\ buf' = buf
        /\ act' = act
        /\ scopeTags' = <<>>
        /\ tagHistory' = IF tok'.Type = "StartTag"
                         THEN Append(tagHistory, "img")
                         ELSE tagHistory
    ]_vars

\* An image with two alt attributes came while text was waiting in the
\* accumulators.
C10_TwoAltsMidBlock ==
    /\ pc = "loop" /\ tok.Data = "img" /\ tok.Type = "StartTag"
    /\ Len(emitted) = 2
    /\ emitted[1].Text = "x" /\ emitted[2].Text = "y"
    /\ buf # "" /\ queue # <<>>

(***************************************************************************)
(* Properties of the context tracker (SpecAdvance).                        *)
(***************************************************************************)
\* C5: a call of advance returns a context of the same length, and every
\* position outside the spans it matched holds the character it held.
C5_LengthAndFrame ==
    pc = "advance" =>
        /\ Len(actx) = Len(aprev)
        /\ \A p \in 1..Len(aprev) :
              p \notin Covered(aspans, Len(aprev)) =>
                  Char(actx, p) = Char(aprev, p)

\* A line that is not in the context was redacted word by word.
C5_WordFallback ==
    /\ pc = "advance" /\ acalls > 0
    /\ afrag = "a  b"
    /\ Len(aspans) = 2
    /\ actx # aprev

\* C6: no position that an earlier call redacted is in a span that a later
\* call selected as its match.
C6_NoRematch ==
    pc = "advance" => Covered(aspans, Len(actx)) \cap aredacted = {}


(***************************************************************************)
(* Further properties of the token pass (Spec).                            *)
(***************************************************************************)
\* C11: from the start tag of a skip tag to the end tag that matches it,
\* skip-block mode is on after every token, whatever the token is.
C11_SkipModeUntilMatchingEnd ==
    (pc = "loop" /\ region # <<>>) => inBlock

\* C12: when the end of the stream is reached with text in the rendered
\* accumulator that is not blank, that text is handed to the rule engine as
\* a block of its own (not the summary, not the raw block).
C12_FlushAtEndOfStream ==
    (pc = "done" /\ result = "ok" /\ TrimSpace(buf) # "") =>
        \E k \in 1..Len(emitted) :
            /\ ~IsFinal(emitted[k], doc)
            /\ Index(emitted[k].Text, TrimSpace(buf)) # 0

\* The step reads a token.
TokenStep == pc = "loop" /\ pc' = "loop" /\ nTok' = nTok + 1

\* C13 (as first stated): the name of an inline tag is never in the tag
\* history.
C13_NoInlineTagPushed ==
    pc = "loop" =>
        \A k \in 1..Len(tagHistory) : ~StringInSlice(tagHistory[k], inlineTags)

\* C13: the tag history is the sequence of the names of the start tags,
\* inline tags included, that came since the last end tag of a non-inline
\* tag and are not skip tags: such a start tag appends its name, the end tag
\* of a non-inline tag empties the history whatever is still open, and no
\* other token changes it.  The block an end tag flushes is classified with
\* the history as it was before that end tag emptied it.
C13_TagHistorySinceLastBlock ==
    [][TokenStep =>
        LET name == TokenText(tok')
        IN  /\ tagHistory' =
                  IF NonInlineEndTag(tok') THEN <<>>
                  ELSE IF tok'.Type = "StartTag"
                          /\ ~StringInSlice(name, skipTags)
                       THEN Append(tagHistory, name)
                       ELSE tagHistory
            /\ (NonInlineEndTag(tok') /\ emitted' # <<>>) =>
                  scopeTags' = tagHistory
    ]_vars

\* A link inside a list item: both names are in the tag history, and the
\* block flushed after them is classified with both.
C13_InlineInHistory ==
    /\ BlockFlushed
    /\ scopeTags = <<"li", "a">>
    /\ tagHistory = <<>>

\* The step reads a Comment token.
CommentStep == TokenStep /\ tok'.Type = "Comment"

\* C14: a Comment token gives no block, and after it the context string is
\* the one before it advanced by the comment's text.
C14_CommentConsumesContext ==
    [][CommentStep =>
        /\ emitted' = <<>>
        /\ ctx' = updateCtx(ctx, TokenText(tok'), "Comment")
    ]_vars

\* The rendered texts of the blocks of out that went to lintProse, each
\* followed by one space, in their order.
RECURSIVE ProseText(_)
ProseText(out) ==
    IF out = <<>> THEN ""
    ELSE (IF Head(out).via = "lintProse" THEN Head(out).Text \o " " ELSE "")
            \o ProseText(Tail(out))

\* C15: the summary starts empty, every token adds to it exactly the
\* rendered text, followed by one space, of the blocks that the token sent
\* to lintProse (nothing for a labelled block, an immediate inline block or
\* an image block), so it only grows, and the summary block handed over at
\* the end of the pass has the summary so built as its text.
C15_SummaryIsProseText ==
    [][/\ pc = "entry" => summary = ""
       /\ TokenStep => summary' = summary \o ProseText(emitted')
       /\ (pc = "loop" /\ pc' = "done") =>
             /\ summary' = summary
             /\ emitted'[1].Scope = "summary." \o doc.RealExt
             /\ emitted'[1].Text = summary
    ]_vars

\* Two paragraphs of prose were flushed and the pass has ended.
C15_TwoParagraphs ==
    /\ pc = "done" /\ result = "ok"
    /\ emitted[1].Text = "a a "
    /\ summary = "a a "

\* A labelled block was flushed and left the summary as it was.
C15_LabelledBlockNotInSummary ==
    /\ BlockFlushed
    /\ emitted[1].via = "lintText"
    /\ summary = ""

\* C18: after every token the rendered and the raw accumulator have the
\* same length, and so have the two forms a Text token appended.
C18_AccumulatorsSameLength ==
    pc \in {"loop", "done"} =>
        /\ Len(buf) = Len(act)
        /\ Len(appended.txt) = Len(appended.raw)

\* A redacted, wrapped and padded text was appended: the two forms differ
\* and are of the same length.
C18_RedactedSameLength ==
    /\ pc = "loop" /\ tok.Type = "Text"
    /\ appended.txt # appended.raw
    /\ Index(appended.txt, "*") # 0
    /\ Char(appended.raw, 1) = " "
    /\ Len(buf) = Len(act) /\ Len(buf) > Len(appended.txt)

\* C19: a Text token leaves the context string as it is, and its immediate
\* block, if any, gets the context advanced by the queue as it was before
\* the token; the block flushed by the end tag of a non-inline tag gets the
\* context as it is before the queue is consumed, and the context after the
\* end tag is that context advanced by the whole queue.
C19_ContextAdvancedAfterEmission ==
    [][/\ (TokenStep /\ tok'.Type = "Text") =>
             /\ ctx' = ctx
             /\ emitted' # <<>> =>
                   emitted'[1].Context = updateContext(ctx, queue)
       /\ (TokenStep /\ NonInlineEndTag(tok')) =>
             /\ emitted' # <<>> => emitted'[1].Context = ctx
             /\ ctx' = updateContext(ctx, queue)
    ]_vars

\* A block was flushed with the context in which its own text is still
\* readable, and the context was advanced past the text after that.
C19_BlockSeesEarlierContext ==
    /\ BlockFlushed
    /\ emitted[1].Text = "a"
    /\ emitted[1].Context = Content
    /\ ctx = "@ b c pre u a"

\* C20: outside a skip block the rendered form of a Text token is redacted
\* only if the token lies in an element, still open, whose tag is skipped
\* for position (tt and code by default), or the token before carried a
\* class of the skip classes.
C20_RedactedOnlyInsideOpenTag ==
    [][(/\ TextRuleStep
        /\ ~inBlock
        /\ TokenText(tok') # ""
        /\ Index(appended'.txt, TokenText(tok')) = 0) =>
            \/ \E k \in 1..Len(openTags) :
                  StringInSlice(openTags[k], skipped(config))
            \/ checkClasses(attr, skipClasses)
    ]_vars


(***************************************************************************)
(* Properties of a process that lints several documents (SpecDocs).        *)
(***************************************************************************)
\* C16: whatever was linted before, a document sees the package-level
\* variables as the first document would: xsltproc gets the fixed arguments
\* and then the document's transform and "-", the skip tags are the
\* configured ones or else the default ones, and the skip classes are the
\* default ones followed by the configured ones.
C16_GlobalsAsForFirstDocument ==
    /\ (/\ pc \in {"loop", "done"}
        /\ doc.Format = "xml" /\ env.xsltproc # "" /\ doc.Transform # "") =>
          xsltArgs = xsltArgsDefault \o <<doc.Transform, "-">>
    /\ pc = "loop" =>
          /\ skipTags = IF config.SkippedScopes # <<>>
                        THEN config.SkippedScopes ELSE skipTagsDefault
          /\ skipClasses = skipClassesDefault \o config.IgnoredClasses


(***************************************************************************)
(* Properties of prep (SpecPrep).                                          *)
(***************************************************************************)
\* The regexes of a list that compile, in their order.
RECURSIVE Compiling(_)
Compiling(regexes) ==
    IF regexes = <<>> THEN <<>>
    ELSE (IF Head(regexes) = "(" THEN <<>> ELSE <<Head(regexes)>>)
            \o Compiling(Tail(regexes))

\* s after every regex of the list has replaced its matches by repl, or,
\* for a block ignore of reStructuredText, has padded them into block.
RECURSIVE ApplyAll(_, _, _, _)
ApplyAll(s, regexes, template, pad) ==
    IF regexes = <<>> THEN s
    ELSE ApplyAll(
             IF pad
             THEN prepPad(s, Head(regexes), template,
                          CountMatches(s, Head(regexes)))
             ELSE ReplaceAll(s, Head(regexes), Expand(template, "$1", "")),
             Tail(regexes), template, pad)

RECURSIVE ApplySections(_, _, _, _, _)
ApplySections(s, sections, template, ext, pad) ==
    IF sections = <<>> THEN s
    ELSE ApplySections(
             IF Head(sections).glob \in {"*", "*" \o ext}
             THEN ApplyAll(s, Compiling(Head(sections).regexes), template, pad)
             ELSE s,
             Tail(sections), template, ext, pad)

\* What prep is to return when no regex fails the document: every regex
\* that compiles, of every section whose glob matches, is applied.
PrepWithValidRegexes(in) ==
    ApplySections(
        ApplySections(StripExInfo(FrontMatter(in.content, in.block)),
                      in.cfg.TokenIgnores, in.inlineT, in.ext, FALSE),
        in.cfg.BlockIgnores, in.block, in.ext, in.ext = ".rst")

\* C17: prep returns an error exactly when a glob of the ignore tables does
\* not compile; with valid globs a regex that does not compile is dropped
\* and every other regex of a matching section is applied.
C17_BadRegexIsDropped ==
    (pc = "prep" /\ pres.done) =>
        /\ pres.err <=> HasBadGlob(pin.cfg)
        /\ ~HasBadGlob(pin.cfg) => pres.s = PrepWithValidRegexes(pin)

\* A regex that does not compile came before one that does, and the second
\* was applied.
C17_LaterRegexApplied ==
    /\ pc = "prep" /\ pres.done /\ ~pres.err
    /\ pin.cfg.TokenIgnores[1] = [glob |-> "*", regexes |-> <<"(", "c">>]
    /\ pin.ext = ".md"
    /\ Index(pres.s, "c") = 0
    /\ Index(pres.s, BT \o BT) # 0

=============================================================================
